---- MODULE Spec2Model ----
(***************************************************************************)
(* The filestream harvester of filebeat (input.go): Run, initState, open,  *)
(* openFile, initFileOffset, checkFileBeforeOpening, readFromSource and    *)
(* isDroppedLine, as one state machine.  One harvester runs over one       *)
(* source; the goroutine registered with ctxtool.WithFunc closes the       *)
(* reader; the environment replaces the file at the path and fires the     *)
(* cancellation signal.  The reader pipeline behind r.Next / r.Close and   *)
(* the publisher behind p.Publish are collaborators of the harvester whose *)
(* code is not part of the sources at hand: they are modelled by their     *)
(* contract.  Next to Spec, which runs one harvester, the module has the   *)
(* stages of the pipeline that open composes (PipelineSpec), the file      *)
(* identifiers of TestFileIdentifier (IdentifierSpec), runs that begin     *)
(* with different metrics (MetricsSpec), two harvesters of one input side  *)
(* by side (PairSpec), the sessions one input opens one after the other    *)
(* (SessionsSpec), the byte limits open hands to the pipeline, computed in *)
(* a machine integer (LimitsSpec), and config.Validate of the              *)
(* awscloudwatch input (ValidateSpec).                                     *)
(***************************************************************************)
EXTENDS Integers, Sequences, FiniteSets, TLC

\* ---------------------------------------------------------------- bounds
MaxReads == 3      \* messages r.Next returns in one run
MaxLineBytes == 9  \* bytes of one decoded line, terminator included
MaxEvents == 3     \* FSEvents the prospector emits for one file
MaxPeerReads == 2  \* messages r.Next returns to the second harvester
MaxOpens == 5      \* sources one input opens one after the other
IntBits == 8       \* width of the machine integer the byte limits are kept in

\* The values the inputs are drawn from. "line1\n" and "line2\n" are six
\* bytes each and leave the cursor at twelve; a message of no bytes is empty.
BytesDomain == {0, 6}
SkipDomain == {0, 1}       \* message.Offset: bytes of discarded messages
CursorDomain == {0, 1, 12}
SizeDomain == {0, 1}
BomDomain == {0, 1}        \* bytes the encoding factory reads

\* Lines are told apart by the patterns they contain.
Tokens == {"ERROR", "DEBUG"}
Lines == {{}, {"ERROR"}, {"ERROR", "DEBUG"}}

VARIABLES
    pc,             \* control point of the harvester goroutine
    src,            \* the Source handed to Run: isFile, truncated, archived
    cfg,            \* the input: closer OnEOF, take_over, include/exclude lines
    cursorNew,      \* cursor store: no entry for the source yet
    cursor,         \* cursor store: the stored Offset
    pathKind,       \* what is at fs.newPath: missing, regular, pipe, other
    pathSize,       \* its size
    fdOpen,         \* the *os.File is open
    fdKind,         \* the opened file's own metadata (f.Stat)
    fdSize,
    fdPos,          \* the descriptor's stream position
    seekPos,        \* the position initFileOffset left it at (-1: not yet)
    truncated,      \* open's second result
    reader,         \* the pipeline: none, open, closed
    baseOffset,     \* the offset stamped by readfile.NewFilemeta (-1: none)
    closerOnEOF,    \* closerCfg.Reader.OnEOF of this session
    closerCfg,      \* the closerConfig handed to newFileReader
    sOffset,        \* state.Offset
    event,          \* the message and state handed to the Publish in flight
    result,         \* what Run returned: none, nil, errNotFile, errOpen, errPublish
    cancelled,      \* ctx.Cancelation is done
    streamCancel,   \* the deferred streamCancel() ran
    closer,         \* goroutine of ctxtool.WithFunc: none, waiting, done
    closeCalls,     \* calls of r.Close
    closeErrs,      \* of which returned an error (logged)
    metrics,        \* loginp.Metrics
    startOffset,    \* history: state.Offset on entry of readFromSource (-1: not entered)
    consumed,       \* history: bytes the stream advanced over the messages read
    reads,          \* history: messages r.Next returned
    nextCalls,      \* history: calls of r.Next
    lastErr,        \* history: the error of the last r.Next ("" if none)
    pubCalls,       \* history: every Publish call: the offset handed over, the
                    \* bytes consumed and messages read by then, the answer
    cursorAtStart,  \* history: cursor store entry when Run began
    metricsAtStart, \* history: the metrics when Run began
    cancelAt,       \* history: where the harvester was when the cancellation
                    \* signal fired ("" while it has not)
    readerCfg,      \* inp.readerConfig: MaxBytes and the line terminator's length
    record,         \* the message on its way through the stages of the pipeline
    stageAt,        \* the stage of the pipeline it is handed to next
    identifier,     \* the configured file identifier: strategy and suffix
    file,           \* the file the prospector watches: path, OS state,
                    \* fingerprint, size, and whether it exists
    sources,        \* history: every FSEvent and the name GetSource gave
    peer,           \* a second harvester of the same input, over a source of
                    \* another name: its state, cursor entry and history
    sessions,       \* history: the sources the input opened and the closer
                    \* configuration open gave to each reader
    limits,         \* the byte limits open gave to the pipeline
    awsConfig,      \* the awscloudwatch configuration handed to Validate
    awsErr          \* what config.Validate returned

vars == <<pc, src, cfg, cursorNew, cursor, pathKind, pathSize, fdOpen, fdKind,
          fdSize, fdPos, seekPos, truncated, reader, baseOffset, closerOnEOF,
          closerCfg,
          sOffset, event, result, cancelled, streamCancel, closer, closeCalls,
          closeErrs, metrics, startOffset, consumed, reads, nextCalls, lastErr,
          pubCalls, cursorAtStart, metricsAtStart, cancelAt, readerCfg,
          record, stageAt,
          identifier, file, sources, peer, sessions, limits, awsConfig,
          awsErr>>

fileVars == <<pathKind, pathSize, fdOpen, fdKind, fdSize, fdPos, seekPos>>
histVars == <<startOffset, consumed, reads, nextCalls, lastErr, pubCalls,
              cursorAtStart, metricsAtStart, cancelAt>>
storeVars == <<cursorNew, cursor>>
closerVars == <<closer, closeCalls, closeErrs>>
pipeVars == <<readerCfg, record, stageAt>>
\* What no step of Run changes: its arguments, and the components that are
\* modelled on their own.
idVars == <<identifier, file, sources>>
sideVars == <<sessions, limits, awsConfig, awsErr>>
inputVars == <<src, cfg, pipeVars, idVars, peer, sideVars>>
\* What a run of the harvester changes.
runVars == <<pc, storeVars, fileVars, truncated, reader, baseOffset,
             closerOnEOF, closerCfg, sOffset, event, result, cancelled,
             streamCancel, closerVars, metrics, histVars>>

\* ------------------------------------------------------------- metrics
MetricNames == {"FilesActive", "HarvesterRunning", "FilesOpened",
                "HarvesterOpenFiles", "HarvesterStarted", "FilesClosed",
                "HarvesterClosed", "ProcessingErrors", "MessagesTruncated",
                "MessagesRead", "BytesProcessed", "EventsProcessed"}

Add(m, k, n) == [m EXCEPT ![k] = @ + n]
Inc(m, k) == Add(m, k, 1)
Dec(m, k) == Add(m, k, -1)

\* ------------------------------------------------------ pure functions
\* initState: a new cursor or a source flagged truncated starts from zero.
initState(isNew, stored, srcTruncated) ==
    IF isNew \/ srcTruncated THEN 0 ELSE stored

\* A check that, like the test before the open, rejects named pipes only.
checkFileNamedPipeOnly(kind) == kind # "pipe"

\* checkFileBeforeOpening: nil exactly for a regular file.
checkFileBeforeOpening(kind) == kind = "regular"

\* A test that also takes a file of exactly the resumed size for truncated.
IsTruncatedOrEqual(size, offset) == size <= offset

\* openFile's truncation test on the opened file's size.
IsTruncated(size, offset) == size < offset

\* initFileOffset: both branches seek relative to the current position.
initFileOffset(pos, offset) == IF offset > 0 THEN pos + offset ELSE pos + 0

\* open: the closer configuration of the session.
EffectiveOnEOF(archived, onEOF) ==
    IF archived /\ ~onEOF THEN TRUE ELSE onEOF

NoCloser == [OnEOF |-> FALSE, AfterInterval |-> 0, OnStateChange |-> FALSE]

\* An override that sets OnEOF and leaves the other fields at their zero
\* values.
EffectiveCloserOnEOFOnly(archived, c) ==
    IF archived /\ ~c.onEOF
    THEN [OnEOF |-> TRUE, AfterInterval |-> 0, OnStateChange |-> FALSE]
    ELSE [OnEOF |-> c.onEOF, AfterInterval |-> c.afterInterval,
          OnStateChange |-> c.onStateChange]

\* open: closerCfg is the input's closerConfig, or for an archived source
\* without OnEOF a copy of it with OnEOF set.
EffectiveCloser(archived, c) ==
    IF archived /\ ~c.onEOF
    THEN [OnEOF |-> TRUE, AfterInterval |-> c.afterInterval,
          OnStateChange |-> c.onStateChange]
    ELSE [OnEOF |-> c.onEOF, AfterInterval |-> c.afterInterval,
          OnStateChange |-> c.onStateChange]

\* match.Matcher.MatchString: the line contains the pattern.
MatchString(m, text) == m \in text

matchAny(matchers, text) == \E m \in matchers : MatchString(m, text)

\* A filter that looks at the exclude patterns only when no include pattern
\* is configured.
isDroppedLineIncludeWins(c, line) ==
    IF c.include # {} THEN ~matchAny(c.include, line)
    ELSE matchAny(c.exclude, line)

isDroppedLine(c, line) ==
    IF c.include # {} /\ ~matchAny(c.include, line) THEN TRUE
    ELSE IF c.exclude # {} /\ matchAny(c.exclude, line) THEN TRUE
    ELSE FALSE

\* message.IsEmpty: no bytes were read for it.
IsEmpty(m) == m.Bytes = 0

\* The bytes the stream advanced for a message: its own bytes and the bytes
\* of the messages discarded before it.
ConsumedBytes(m) == m.Bytes + m.Offset

\* An advance that forgets the bytes of the messages discarded before m.
AdvanceOwnBytes(off, m) == off + m.Bytes

\* An assignment in place of the addition.
AdvanceReset(off, m) == m.Bytes + m.Offset

\* s.Offset += int64(message.Bytes) + int64(message.Offset)
AdvanceOffset(off, m) == off + m.Bytes + m.Offset

\* The errors of r.Next that readFromSource tells apart.
NextErrors == {"ErrFileTruncate", "ErrClosed", "EOF", "ErrIO"}
TerminalErrors == {"ErrFileTruncate", "ErrClosed", "EOF"}

\* What r.Next can return. The "truncated" flag of log.flags is put on a
\* message whose content was cut, so not on one without content.
Messages == {m \in [Bytes : BytesDomain, Offset : SkipDomain, line : Lines,
                    flagged : BOOLEAN] : m.flagged => m.Bytes > 0 /\ m.Offset = 0}

NoEvent == [offset |-> -1, bytes |-> 0, tags |-> {}]

\* ------------------------------------------------------------ pipeline
\* open: encReaderMaxBytes := inp.readerConfig.MaxBytes * 4
EncodeFactor == 4

\* The machine integer: two's complement of IntBits bits.
MaxInt == 2^(IntBits - 1) - 1
MinInt == -(2^(IntBits - 1))
WrapInt(x) == ((x - MinInt) % 2^IntBits) + MinInt

encReaderMaxBytes(maxBytes) == WrapInt(maxBytes * EncodeFactor)

\* A pipeline whose parsers wrap the line reader before the metadata is
\* stamped.
StageOrderParsersBeforeFilemeta ==
    <<"EncodeReader", "StripNewline", "Parsers", "Filemeta", "LimitReader">>

\* A pipeline that limits the size before the parsers run.
StageOrderLimitBeforeParsers ==
    <<"EncodeReader", "StripNewline", "Filemeta", "LimitReader", "Parsers">>

\* open: the readers in the order they wrap each other, innermost first.
StageOrder ==
    <<"EncodeReader", "StripNewline", "Filemeta", "Parsers", "LimitReader">>

Min(a, b) == IF a < b THEN a ELSE b

\* readfile.EncodeReader: a decoded line of at most ceiling bytes; a line
\* that was cut has lost its terminator.
EncodeReader(rec, ceiling) ==
    IF rec.len > ceiling
    THEN [rec EXCEPT !.len = ceiling, !.term = 0]
    ELSE rec

\* readfile.StripNewline: the content without its terminator.
StripNewline(rec) == [rec EXCEPT !.len = @ - rec.term, !.term = 0]

\* readfile.Filemeta: stamps path, descriptor and offset; the content stays.
Filemeta(rec) == [rec EXCEPT !.stamped = TRUE]

\* The configured parsers: they may join lines, which adds grow bytes.
Parsers(rec, grow) == [rec EXCEPT !.len = @ + grow]

\* readfile.LimitReader: content beyond maxBytes is cut and flagged.
LimitReader(rec, maxBytes) ==
    IF rec.len > maxBytes
    THEN [rec EXCEPT !.len = maxBytes, !.flagged = TRUE]
    ELSE rec

ReaderConfigs == [MaxBytes : {1, 2}, LineTerminator : {1, 2}]
GrowDomain == {0, 1, 3}

NoRecord == [len |-> 0, term |-> 0, stamped |-> FALSE, flagged |-> FALSE]

\* A line as the file holds it: its terminator and up to MaxLineBytes bytes.
RawLine(n, t) == [len |-> n, term |-> t, stamped |-> FALSE, flagged |-> FALSE]

\* No message is in the pipeline.
PipelineIdle ==
    /\ readerCfg = [MaxBytes |-> 2, LineTerminator |-> 1]
    /\ record = NoRecord
    /\ stageAt = 0

\* --------------------------------------------------------- identifiers
\* A source name is the sequence of the parts it is concatenated from.
Paths == {"/a/app.log", "/b/app.log"}
OSStates == {"100-1", "200-1"}         \* file.GetOSState(fi).String()
Fingerprints == {"fingerprintvalue", "otherfingerprint"}
Identifiers == {[strategy |-> "native", suffix |-> ""],
                [strategy |-> "native", suffix |-> "my-suffix"],
                [strategy |-> "path", suffix |-> ""],
                [strategy |-> "fingerprint", suffix |-> ""]}

FSEvent(new, old, op, f) ==
    [NewPath |-> new, OldPath |-> old, Op |-> op,
     Descriptor |-> [OSState |-> f.osState, Fingerprint |-> f.fingerprint,
                     Size |-> f.size]]

\* A native identifier that leaves the suffix out.
NativeNameNoSuffix(id, e) == <<"native", "::", e.Descriptor.OSState>>

\* Native: the OS state of the descriptor, and the suffix when one is set.
NativeName(id, e) ==
    <<"native", "::", e.Descriptor.OSState>>
        \o (IF id.suffix # "" THEN <<"-", id.suffix>> ELSE <<>>)

\* A path identifier that names every event by its new path.
PathNameAlwaysNew(e) == <<"path", "::", e.NewPath>>

\* Path: the new path, and for a Delete the old one.
PathName(e) ==
    <<"path", "::", IF e.Op = "Delete" THEN e.OldPath ELSE e.NewPath>>

\* A fingerprint identifier that adds the path to the name.
FingerprintNameWithPath(e) ==
    <<"fingerprint", "::", e.Descriptor.Fingerprint, e.NewPath>>

\* Fingerprint: the fingerprint of the descriptor.
FingerprintName(e) == <<"fingerprint", "::", e.Descriptor.Fingerprint>>

GetSource(id, e) ==
    CASE id.strategy = "native" -> NativeName(id, e)
      [] id.strategy = "path" -> PathName(e)
      [] id.strategy = "fingerprint" -> FingerprintName(e)

\* The cases of TestFileIdentifier: an event and the name expected for it.
PathTestCases ==
    {[event |-> [NewPath |-> "/path/to/file", OldPath |-> "", Op |-> "None"],
      expectedSrc |-> <<"path", "::", "/path/to/file">>],
     [event |-> [NewPath |-> "/new/path/to/file",
                 OldPath |-> "/old/path/to/file", Op |-> "Rename"],
      expectedSrc |-> <<"path", "::", "/new/path/to/file">>],
     [event |-> [NewPath |-> "", OldPath |-> "/old/path/to/file",
                 Op |-> "Delete"],
      expectedSrc |-> <<"path", "::", "/old/path/to/file">>]}

FingerprintTestCases ==
    {[event |-> [NewPath |-> c.event.NewPath, OldPath |-> c.event.OldPath,
                 Op |-> c.event.Op,
                 Descriptor |-> [Fingerprint |-> "fingerprintvalue"]],
      expectedSrc |-> <<"fingerprint", "::", "fingerprintvalue">>] :
        c \in PathTestCases}

NativeTestCases ==
    {[suffix |-> "", event |-> [NewPath |-> "/tmp/test_file_identifier_native",
                                Descriptor |-> [OSState |-> "100-1"]],
      expectedSrc |-> <<"native", "::", "100-1">>],
     [suffix |-> "my-suffix",
      event |-> [NewPath |-> "/tmp/test_file_identifier_native",
                 Descriptor |-> [OSState |-> "100-1"]],
      expectedSrc |-> <<"native", "::", "100-1", "-", "my-suffix">>]}

NoFile == [path |-> "", osState |-> "", fingerprint |-> "", size |-> 0,
           exists |-> FALSE]

\* No prospector is modelled next to the harvester.
IdentifierIdle ==
    /\ identifier = [strategy |-> "native", suffix |-> ""]
    /\ file = NoFile
    /\ sources = <<>>

\* awscloudwatch: the values of start_position.
beginning == "beginning"
end == "end"
lastSync == "lastSync"

\* awscloudwatch defaultConfig: the fields Validate reads; the log group
\* fields and the region are left at their zero values.
defaultConfig ==
    [StartPosition |-> beginning, LogGroupARN |-> "", LogGroupName |-> "",
     LogGroupNamePrefix |-> "", RegionName |-> ""]

NoLimits == [MaxBytes |-> 0, encReader |-> 0, limitReader |-> 0]

\* No session was opened, no limit computed, no configuration validated.
SideIdle ==
    /\ sessions = <<>>
    /\ limits = NoLimits
    /\ awsConfig = defaultConfig
    /\ awsErr = "unset"

\* No second harvester runs.
PeerIdle ==
    [pc |-> "idle", cursorNew |-> TRUE, cursor |-> 0, offset |-> 0,
     start |-> -1, consumed |-> 0, reads |-> 0, event |-> NoEvent,
     pubs |-> <<>>, result |-> "none"]

\* ---------------------------------------------------------------- Init
\* The input: close.reader.on_eof, close.reader.after_interval (0: none),
\* close.on_state_change, take_over, include_lines and exclude_lines.
Config(e, a, c, t, i, x) ==
    [onEOF |-> e, afterInterval |-> a, onStateChange |-> c, takeOver |-> t,
     include |-> i, exclude |-> x]

Configs == {Config(FALSE, 0, FALSE, FALSE, {}, {}),
            Config(TRUE, 5, FALSE, TRUE, {"ERROR"}, {"DEBUG"}),
            Config(FALSE, 5, TRUE, TRUE, {"ERROR"}, {}),
            Config(TRUE, 0, TRUE, FALSE, {}, {"DEBUG"})}

\* A source that is no fileSource has no other field that Run reads.
Sources == [isFile : {TRUE}, truncated : BOOLEAN, archived : BOOLEAN]
           \cup {[isFile |-> FALSE, truncated |-> FALSE, archived |-> FALSE]}

\* Run's locals, the reader and the histories before Run begins.
InitLocals ==
    /\ pc = "start"
    /\ fdOpen = FALSE /\ fdKind = "none" /\ fdSize = 0 /\ fdPos = 0
    /\ seekPos = -1
    /\ truncated = FALSE
    /\ reader = "none"
    /\ baseOffset = -1
    /\ closerOnEOF = FALSE
    /\ closerCfg = NoCloser
    /\ sOffset = 0
    /\ event = NoEvent
    /\ result = "none"
    /\ cancelled = FALSE
    /\ streamCancel = FALSE
    /\ closer = "none" /\ closeCalls = 0 /\ closeErrs = 0
    /\ startOffset = -1 /\ consumed = 0 /\ reads = 0 /\ nextCalls = 0
    /\ lastErr = ""
    /\ pubCalls = <<>>
    /\ cancelAt = ""

InitRest ==
    /\ InitLocals
    /\ metrics = [k \in MetricNames |-> 0]
    /\ metricsAtStart = metrics

Init ==
    /\ src \in Sources
    /\ cfg \in Configs
    /\ cursorNew \in BOOLEAN
    /\ cursor \in (IF cursorNew THEN {0} ELSE CursorDomain)
    /\ cursorAtStart = [new |-> cursorNew, offset |-> cursor]
    /\ pathKind \in {"missing", "regular", "pipe", "other"}
    /\ pathSize \in (IF pathKind = "regular" THEN SizeDomain ELSE {0})
    /\ InitRest
    /\ PipelineIdle
    /\ IdentifierIdle
    /\ peer = PeerIdle
    /\ SideIdle

\* ------------------------------------------------------------ returns
\* Run returns before anything was opened or registered.
ReturnEarly(res) ==
    /\ result' = res
    /\ pc' = "done"

\* readFromSource returns res: its deferred metrics, then Run's deferred
\* streamCancel() and gauge decrements, in the order the defers unwind.
DeferredMetrics(m) ==
    Dec(Dec(Inc(Dec(Inc(m, "HarvesterClosed"), "HarvesterOpenFiles"),
        "FilesClosed"), "HarvesterRunning"), "FilesActive")

ReturnFromLoop(res, m) ==
    /\ metrics' = DeferredMetrics(m)
    /\ streamCancel' = TRUE
    /\ result' = res
    /\ pc' = "done"

\* ------------------------------------------------------------- actions
\* Run: the type assertion on the source and initState.
RunStart ==
    /\ pc = "start"
    /\ IF ~src.isFile
       THEN /\ ReturnEarly("errNotFile")
            /\ UNCHANGED sOffset
       ELSE /\ sOffset' = initState(cursorNew, cursor, src.truncated)
            /\ pc' = "stat"
            /\ UNCHANGED result
    /\ UNCHANGED <<inputVars, storeVars, fileVars, truncated, reader,
                   baseOffset, closerOnEOF, closerCfg, event, cancelled,
                   streamCancel,
                   closerVars, metrics, histVars>>

\* openFile: os.Stat of the path and the named-pipe test.
Stat ==
    /\ pc = "stat"
    /\ IF pathKind \in {"missing", "pipe"}
       THEN ReturnEarly("errOpen")
       ELSE pc' = "readopen" /\ UNCHANGED result
    /\ UNCHANGED <<inputVars, storeVars, fileVars, truncated, reader,
                   baseOffset, closerOnEOF, closerCfg, sOffset, event,
                   cancelled,
                   streamCancel, closerVars, metrics, histVars>>

\* The file at the path is replaced between the stat and the open.
EnvReplace ==
    /\ pc = "readopen"
    /\ \E k \in {"missing", "regular", "pipe", "other"} :
         \E sz \in (IF k = "regular" THEN SizeDomain ELSE {0}) :
            /\ <<k, sz>> # <<pathKind, pathSize>>
            /\ pathKind' = k
            /\ pathSize' = sz
    /\ UNCHANGED <<pc, inputVars, storeVars, fdOpen, fdKind, fdSize, fdPos,
                   seekPos, truncated, reader, baseOffset, closerOnEOF,
                   closerCfg,
                   sOffset, event, result, cancelled, streamCancel,
                   closerVars, metrics, histVars>>

\* openFile: file.ReadOpen binds the descriptor to what is at the path now.
ReadOpen ==
    /\ pc = "readopen"
    /\ \E ok \in BOOLEAN :
         IF pathKind = "missing" \/ ~ok
         THEN /\ ReturnEarly("errOpen")
              /\ UNCHANGED <<fdOpen, fdKind, fdSize, fdPos>>
         ELSE /\ fdOpen' = TRUE
              /\ fdKind' = pathKind
              /\ fdSize' = pathSize
              /\ fdPos' = 0
              /\ pc' = "openfile"
              /\ UNCHANGED result
    /\ UNCHANGED <<inputVars, storeVars, pathKind, pathSize, seekPos,
                   truncated, reader, baseOffset, closerOnEOF, closerCfg,
                   sOffset, event,
                   cancelled, streamCancel, closerVars, metrics, histVars>>

\* An error return that leaves the file open.
FailAndLeak ==
    /\ fdOpen' = fdOpen
    /\ ReturnEarly("errOpen")

\* cleanup.IfNot(&ok, f.Close) on an error return of openFile or open.
CloseAndFail ==
    /\ fdOpen' = FALSE
    /\ ReturnEarly("errOpen")

\* openFile after the open: f.Stat, checkFileBeforeOpening, the truncation
\* test, initFileOffset and the encoding factory (which may read bytes).
openFile ==
    /\ pc = "openfile"
    /\ \E statOk \in BOOLEAN, seekOk \in BOOLEAN, encOk \in BOOLEAN,
          bom \in BomDomain :
         LET trunc == IsTruncated(fdSize, sOffset)
             offset == IF trunc THEN 0 ELSE sOffset
             pos == initFileOffset(fdPos, offset)
         IN  \* the factory cannot read past the end of the file
             /\ bom > 0 => pos + bom <= fdSize
             /\ IF ~statOk \/ ~checkFileBeforeOpening(fdKind)
                THEN /\ CloseAndFail
                     /\ UNCHANGED <<fdPos, seekPos, truncated>>
                ELSE IF ~seekOk
                THEN /\ CloseAndFail
                     /\ truncated' = trunc
                     /\ UNCHANGED <<fdPos, seekPos>>
                ELSE IF ~encOk
                THEN /\ CloseAndFail
                     /\ truncated' = trunc
                     /\ seekPos' = pos
                     /\ fdPos' = pos
                ELSE /\ truncated' = trunc
                     /\ seekPos' = pos
                     /\ fdPos' = pos + bom
                     /\ pc' = "open"
                     /\ UNCHANGED <<fdOpen, result>>
    /\ UNCHANGED <<inputVars, storeVars, pathKind, pathSize, fdKind, fdSize,
                   reader, baseOffset, closerOnEOF, closerCfg, sOffset,
                   event, cancelled,
                   streamCancel, closerVars, metrics, histVars>>

\* A Run that keeps the resumed offset although open reported truncation.
OffsetKept(trunc, off) == off

\* Run after a successful open: the state is reset on truncation.
OffsetAfterOpen(trunc, off) == IF trunc THEN 0 ELSE off

\* open: the offset handed to readfile.NewFilemeta.
FilemetaOffset(trunc, off) == IF trunc THEN 0 ELSE off

\* Run's gauges and readFromSource's counters on entry.
EntryMetrics(m) ==
    Inc(Inc(Inc(Inc(Inc(m, "FilesActive"), "HarvesterRunning"),
        "FilesOpened"), "HarvesterOpenFiles"), "HarvesterStarted")

\* A Run that raises its gauges and counters before it knows whether the
\* open succeeded, and does not take them back when it failed.
openGaugesFirst ==
    /\ pc = "open"
    /\ metrics' = EntryMetrics(metrics)
    /\ \E ok \in BOOLEAN :
         IF ~ok
         THEN /\ CloseAndFail
              /\ UNCHANGED <<reader, baseOffset, closerOnEOF, closerCfg, sOffset,
                             closer, startOffset>>
         ELSE /\ closerOnEOF' = EffectiveOnEOF(src.archived, cfg.onEOF)
              /\ closerCfg' = EffectiveCloser(src.archived, cfg)
              /\ baseOffset' = FilemetaOffset(truncated, sOffset)
              /\ reader' = "open"
              /\ sOffset' = OffsetAfterOpen(truncated, sOffset)
              /\ closer' = "waiting"
              /\ startOffset' = sOffset'
              /\ pc' = "loop"
              /\ UNCHANGED <<fdOpen, result>>
    /\ UNCHANGED <<inputVars, storeVars, pathKind, pathSize, fdKind, fdSize,
                   fdPos, seekPos, truncated, event, cancelled, streamCancel,
                   closeCalls, closeErrs, consumed, reads, nextCalls, lastErr,
                   pubCalls, cursorAtStart, metricsAtStart, cancelAt>>

\* open after openFile (the closer configuration and the reader pipeline),
\* then Run up to the first test of the loop condition: the state reset,
\* the gauges, the registration with ctxtool.WithFunc and readFromSource's
\* counters.
open ==
    /\ pc = "open"
    /\ \E ok \in BOOLEAN :
         IF ~ok
         THEN /\ CloseAndFail
              /\ UNCHANGED <<reader, baseOffset, closerOnEOF, closerCfg, sOffset,
                             closer, metrics, startOffset>>
         ELSE /\ closerOnEOF' = EffectiveOnEOF(src.archived, cfg.onEOF)
              /\ closerCfg' = EffectiveCloser(src.archived, cfg)
              /\ baseOffset' = FilemetaOffset(truncated, sOffset)
              /\ reader' = "open"
              /\ sOffset' = OffsetAfterOpen(truncated, sOffset)
              /\ metrics' = EntryMetrics(metrics)
              /\ closer' = "waiting"
              /\ startOffset' = sOffset'
              /\ pc' = "loop"
              /\ UNCHANGED <<fdOpen, result>>
    /\ UNCHANGED <<inputVars, storeVars, pathKind, pathSize, fdKind, fdSize,
                   fdPos, seekPos, truncated, event, cancelled, streamCancel,
                   closeCalls, closeErrs, consumed, reads, nextCalls, lastErr,
                   pubCalls, cursorAtStart, metricsAtStart, cancelAt>>

\* A loop that gives up once the processing-errors counter is not zero.
LoopCheckStopsOnErrors ==
    /\ pc = "loop"
    /\ IF cancelled \/ metrics["ProcessingErrors"] > 0
       THEN /\ ReturnFromLoop("nil", metrics)
            /\ UNCHANGED nextCalls
       ELSE /\ pc' = "next"
            /\ nextCalls' = nextCalls + 1
            /\ UNCHANGED <<metrics, streamCancel, result>>
    /\ UNCHANGED <<inputVars, storeVars, fileVars, truncated, reader,
                   baseOffset, closerOnEOF, closerCfg, sOffset, event,
                   cancelled, closerVars, startOffset, consumed, reads,
                   lastErr, pubCalls, cursorAtStart, metricsAtStart, cancelAt>>

\* A loop that goes on without looking at the cancellation signal.
LoopCheckIgnoresCancel ==
    /\ pc = "loop"
    /\ pc' = "next"
    /\ nextCalls' = nextCalls + 1
    /\ UNCHANGED <<metrics, streamCancel, result>>
    /\ UNCHANGED <<inputVars, storeVars, fileVars, truncated, reader,
                   baseOffset, closerOnEOF, closerCfg, sOffset, event,
                   cancelled,
                   closerVars, startOffset, consumed, reads, lastErr,
                   pubCalls, cursorAtStart, metricsAtStart, cancelAt>>

\* readFromSource: the loop condition, then the call of r.Next.
LoopCheck ==
    /\ pc = "loop"
    /\ IF cancelled
       THEN /\ ReturnFromLoop("nil", metrics)
            /\ UNCHANGED nextCalls
       ELSE /\ pc' = "next"
            /\ nextCalls' = nextCalls + 1
            /\ UNCHANGED <<metrics, streamCancel, result>>
    /\ UNCHANGED <<inputVars, storeVars, fileVars, truncated, reader,
                   baseOffset, closerOnEOF, closerCfg, sOffset, event,
                   cancelled,
                   closerVars, startOffset, consumed, reads, lastErr,
                   pubCalls, cursorAtStart, metricsAtStart, cancelAt>>

\* Counters that take the bytes of a message before the filter has seen it.
ReadMetricsCountsBytes(m, msg) ==
    Add(Inc(IF msg.flagged THEN Add(m, "MessagesTruncated", 1) ELSE m,
            "MessagesRead"), "BytesProcessed", msg.Bytes)

\* The counters of a message that r.Next returned.
ReadMetrics(m, msg) ==
    Inc(IF msg.flagged THEN Add(m, "MessagesTruncated", 1) ELSE m,
        "MessagesRead")

\* The event and the state handed to p.Publish.
PublishArgs(msg, off) ==
    [offset |-> off, bytes |-> msg.Bytes,
     tags |-> IF cfg.takeOver THEN {"take_over"} ELSE {}]

\* readFromSource: r.Next returned msg. The offset advances, the message is
\* counted, and it is either dropped or handed to p.Publish.
NextMessage(msg) ==
    /\ pc = "next"
    /\ reader = "open"
    /\ reads < MaxReads
    /\ sOffset' = AdvanceOffset(sOffset, msg)
    /\ consumed' = consumed + ConsumedBytes(msg)
    /\ reads' = reads + 1
    /\ lastErr' = ""
    /\ IF IsEmpty(msg) \/ isDroppedLine(cfg, msg.line)
       THEN /\ metrics' = ReadMetrics(metrics, msg)
            /\ pc' = "loop"
            /\ UNCHANGED event
       ELSE /\ metrics' = Add(ReadMetrics(metrics, msg), "BytesProcessed",
                              msg.Bytes)
            /\ event' = PublishArgs(msg, sOffset')
            /\ pc' = "publish"
    /\ UNCHANGED <<inputVars, storeVars, fileVars, truncated, reader,
                   baseOffset, closerOnEOF, closerCfg, result, cancelled,
                   streamCancel,
                   closerVars, startOffset, nextCalls, pubCalls,
                   cursorAtStart, metricsAtStart, cancelAt>>

\* The errors r.Next can return now: ErrClosed once the reader is closed (or
\* when the closer policy fires), io.EOF only when the session closes on EOF.
NextCanFail(e) ==
    /\ reader = "closed" => e = "ErrClosed"
    /\ e = "EOF" => closerOnEOF

\* A loop that logs the unexpected error without counting it.
ErrorMetricsUncounted(m, e) == m

\* What readFromSource does with an error of r.Next: it is logged, an
\* unexpected one is counted, and the loop is left with nil.
ErrorMetrics(m, e) ==
    IF e \in TerminalErrors THEN m ELSE Inc(m, "ProcessingErrors")

\* A loop that goes on reading after io.EOF.
AfterNextErrorContinue(e) ==
    IF e = "EOF"
    THEN pc' = "loop" /\ UNCHANGED <<metrics, streamCancel, result>>
    ELSE ReturnFromLoop("nil", ErrorMetrics(metrics, e))

\* A loop that returns the unexpected read error to the caller.
AfterNextErrorEscalate(e) ==
    ReturnFromLoop(IF e \in TerminalErrors THEN "nil" ELSE "errRead",
                   ErrorMetrics(metrics, e))

AfterNextError(e) ==
    ReturnFromLoop("nil", ErrorMetrics(metrics, e))

NextError(e) ==
    /\ pc = "next"
    /\ NextCanFail(e)
    /\ lastErr' = e
    /\ AfterNextError(e)
    /\ UNCHANGED <<inputVars, storeVars, fileVars, truncated, reader,
                   baseOffset, closerOnEOF, closerCfg, sOffset, event,
                   cancelled,
                   closerVars, startOffset, consumed, reads, nextCalls,
                   pubCalls, cursorAtStart, metricsAtStart, cancelAt>>

\* The publisher: an accepted Publish stores the cursor with the event.
StoreAfterPublish(ok, stored, handed) ==
    IF ok THEN [new |-> FALSE, offset |-> handed] ELSE stored

\* A loop that counts the publish error and goes on.
AfterPublishSwallow(ok) ==
    /\ metrics' = Inc(metrics, IF ok THEN "EventsProcessed" ELSE "ProcessingErrors")
    /\ pc' = "loop"
    /\ UNCHANGED <<streamCancel, result>>

\* A return on the publish error that runs none of the deferred calls.
AfterPublishNoDefer(ok) ==
    IF ok
    THEN /\ metrics' = Inc(metrics, "EventsProcessed")
         /\ pc' = "loop"
         /\ UNCHANGED <<streamCancel, result>>
    ELSE /\ metrics' = Inc(metrics, "ProcessingErrors")
         /\ streamCancel' = TRUE
         /\ result' = "errPublish"
         /\ pc' = "done"

\* readFromSource: p.Publish returned.
AfterPublish(ok) ==
    IF ok
    THEN /\ metrics' = Inc(metrics, "EventsProcessed")
         /\ pc' = "loop"
         /\ UNCHANGED <<streamCancel, result>>
    ELSE ReturnFromLoop("errPublish", Inc(metrics, "ProcessingErrors"))

PublishStep(ok, st) ==
    /\ pc = "publish"
    /\ pubCalls' = Append(pubCalls, [offset |-> event.offset,
                                     consumed |-> consumed, ok |-> ok,
                                     read |-> reads])
    /\ cursorNew' = st.new
    /\ cursor' = st.offset
    /\ event' = NoEvent
    /\ AfterPublish(ok)
    /\ UNCHANGED <<inputVars, fileVars, truncated, reader, baseOffset,
                   closerOnEOF, closerCfg, sOffset, cancelled, closerVars,
                   startOffset,
                   consumed, reads, nextCalls, lastErr, cursorAtStart,
                   metricsAtStart,
                   cancelAt>>

\* A harvester that writes the cursor on its own before it publishes.
PublishTwoWrites(ok) ==
    PublishStep(ok, [new |-> FALSE, offset |-> event.offset])

\* One call hands over the event and the state; the store follows the
\* publisher's answer.
Publish(ok) ==
    PublishStep(ok, StoreAfterPublish(ok, [new |-> cursorNew, offset |-> cursor],
                                      event.offset))

\* The external cancellation signal.
EnvCancel ==
    /\ ~cancelled
    /\ pc \in {"loop", "next", "publish"} \/ (pc = "done" /\ closer = "waiting")
    /\ cancelled' = TRUE
    /\ cancelAt' = pc
    /\ UNCHANGED <<pc, inputVars, storeVars, fileVars, truncated, reader,
                   baseOffset, closerOnEOF, closerCfg, sOffset, event, result,
                   streamCancel, closerVars, metrics, startOffset, consumed,
                   reads, nextCalls, lastErr, pubCalls, cursorAtStart,
                   metricsAtStart>>

\* r.Close() called by the goroutine of ctxtool.WithFunc, which is left in
\* state after. Closing a closed file returns an error, which is only logged.
CloseStep(after) ==
    /\ closer = "waiting"
    /\ cancelled \/ streamCancel
    /\ closeErrs' = closeErrs + (IF reader = "closed" THEN 1 ELSE 0)
    /\ closeCalls' = closeCalls + 1
    /\ reader' = "closed"
    /\ fdOpen' = FALSE
    /\ closer' = after
    /\ UNCHANGED <<pc, inputVars, storeVars, pathKind, pathSize, fdKind,
                   fdSize, fdPos, seekPos, truncated, baseOffset,
                   closerOnEOF, closerCfg,
                   sOffset, event, result, cancelled, streamCancel, metrics,
                   histVars>>

\* A registration that closes the reader once for the cancellation signal
\* and once more for streamCancel().
CloseReaderPerTrigger ==
    /\ closeCalls < (IF cancelled THEN 1 ELSE 0) + (IF streamCancel THEN 1 ELSE 0)
    /\ CloseStep(IF cancelled /\ streamCancel /\ closeCalls = 1
                 THEN "done" ELSE "waiting")

\* The function registered with ctxtool.WithFunc runs once, when the
\* cancellation signal or streamCancel() ends its context.
CloseReader == CloseStep("done")

Harvester ==
    \/ RunStart
    \/ Stat
    \/ ReadOpen
    \/ openFile
    \/ open
    \/ LoopCheck
    \/ \E msg \in Messages : NextMessage(msg)
    \/ \E e \in NextErrors : NextError(e)
    \/ \E ok \in BOOLEAN : Publish(ok)

Next ==
    \/ Harvester
    \/ EnvReplace
    \/ EnvCancel
    \/ CloseReader

Spec == Init /\ [][Next]_vars

\* ------------------------------------------------------------- fairness
\* The steps of the harvester goroutine that do not wait for the file: every
\* one of them is taken once it is reached (p.Publish returns).
HarvesterSteps ==
    \/ RunStart
    \/ Stat
    \/ ReadOpen
    \/ openFile
    \/ open
    \/ LoopCheck
    \/ \E ok \in BOOLEAN : Publish(ok)

\* r.Next waits for bytes as long as it likes, but returns once the reader
\* is closed.
NextUnblocked == reader = "closed" /\ NextError("ErrClosed")

Fairness ==
    /\ WF_vars(HarvesterSteps)
    /\ WF_vars(NextUnblocked)
    /\ WF_vars(CloseReader)

\* The runs of one input over a file source, from a new cursor or one left
\* behind at twelve.
LiveInit ==
    /\ Init
    /\ cfg = Config(TRUE, 5, FALSE, TRUE, {"ERROR"}, {"DEBUG"})
    /\ src.isFile /\ ~src.truncated
    /\ ~cursorNew => cursor = 12

FairSpec == LiveInit /\ [][Next]_vars /\ Fairness

\* ------------------------------------------- the pipeline on its own
\* One message on its way through the readers that open composed, from the
\* innermost to the outermost.
AtStage(name) ==
    /\ stageAt \in 1..Len(StageOrder)
    /\ StageOrder[stageAt] = name

StageDone(rec) ==
    /\ record' = rec
    /\ stageAt' = stageAt + 1
    /\ UNCHANGED <<pc, src, cfg, storeVars, fileVars, truncated, reader,
                   baseOffset, closerOnEOF, closerCfg, sOffset, event, result,
                   cancelled, streamCancel, closerVars, metrics, histVars,
                   readerCfg, idVars, peer, sideVars>>

NextEncodeReader ==
    /\ AtStage("EncodeReader")
    /\ StageDone(EncodeReader(record, encReaderMaxBytes(readerCfg.MaxBytes)))

NextStripNewline ==
    /\ AtStage("StripNewline")
    /\ StageDone(StripNewline(record))

NextFilemeta ==
    /\ AtStage("Filemeta")
    /\ StageDone(Filemeta(record))

NextParsers ==
    /\ AtStage("Parsers")
    /\ \E grow \in GrowDomain : StageDone(Parsers(record, grow))

NextLimitReader ==
    /\ AtStage("LimitReader")
    /\ StageDone(LimitReader(record, readerCfg.MaxBytes))

PipelineNext ==
    \/ NextEncodeReader
    \/ NextStripNewline
    \/ NextFilemeta
    \/ NextParsers
    \/ NextLimitReader

\* The harvester is not running.
HarvesterIdle ==
    /\ src = [isFile |-> TRUE, truncated |-> FALSE, archived |-> FALSE]
    /\ cfg = Config(FALSE, 0, FALSE, FALSE, {}, {})
    /\ cursorNew = TRUE /\ cursor = 0
    /\ cursorAtStart = [new |-> cursorNew, offset |-> cursor]
    /\ pathKind = "regular" /\ pathSize = 0
    /\ InitRest

PipelineInit ==
    /\ HarvesterIdle
    /\ readerCfg \in ReaderConfigs
    /\ \E n \in 0..MaxLineBytes :
          /\ n >= readerCfg.LineTerminator
          /\ record = RawLine(n, readerCfg.LineTerminator)
    /\ stageAt = 1
    /\ IdentifierIdle
    /\ peer = PeerIdle
    /\ SideIdle

PipelineSpec == PipelineInit /\ [][PipelineNext]_vars

\* --------------------------------------- the identifier on its own
\* The prospector emits an FSEvent for the file and GetSource names its
\* source.
Emit(e, f) ==
    /\ Len(sources) < MaxEvents
    /\ sources' = Append(sources, [event |-> e, name |-> GetSource(identifier, e)])
    /\ file' = f
    /\ UNCHANGED <<pc, src, cfg, storeVars, fileVars, truncated, reader,
                   baseOffset, closerOnEOF, closerCfg, sOffset, event, result,
                   cancelled, streamCancel, closerVars, metrics, histVars,
                   pipeVars, identifier, peer, sideVars>>

\* A file appears at a path.
EvCreate ==
    /\ ~file.exists
    /\ \E p \in Paths, o \in OSStates, fp \in Fingerprints :
         LET f == [path |-> p, osState |-> o, fingerprint |-> fp, size |-> 0,
                   exists |-> TRUE]
         IN  Emit(FSEvent(p, "", "Create", f), f)

\* The file grows.
EvWrite ==
    /\ file.exists
    /\ LET f == [file EXCEPT !.size = @ + 1]
       IN  Emit(FSEvent(file.path, file.path, "Write", f), f)

\* The file is moved to another path: the inode and the content stay.
EvRename ==
    /\ file.exists
    /\ \E p \in Paths \ {file.path} :
         LET f == [file EXCEPT !.path = p]
         IN  Emit(FSEvent(p, file.path, "Rename", f), f)

\* The file is removed: the event carries the last known path only.
EvDelete ==
    /\ file.exists
    /\ Emit(FSEvent("", file.path, "Delete", file), NoFile)

\* The file at the path is replaced by another one (another inode, other
\* content), which the prospector reports as a write to the path.
EvReplace ==
    /\ file.exists
    /\ \E o \in OSStates \ {file.osState},
          fp \in Fingerprints \ {file.fingerprint} :
         LET f == [file EXCEPT !.osState = o, !.fingerprint = fp, !.size = 0]
         IN  Emit(FSEvent(file.path, file.path, "Write", f), f)

IdentifierNext ==
    \/ EvCreate
    \/ EvWrite
    \/ EvRename
    \/ EvDelete
    \/ EvReplace

IdentifierInit ==
    /\ HarvesterIdle
    /\ PipelineIdle
    /\ identifier \in Identifiers
    /\ file = NoFile
    /\ sources = <<>>
    /\ peer = PeerIdle
    /\ SideIdle

IdentifierSpec == IdentifierInit /\ [][IdentifierNext]_vars

\* --------------------------------------------- the metrics at start
\* The metrics are handed to Run with whatever earlier runs counted.
MetricStarts ==
    {[k \in MetricNames |-> 0],
     [k \in MetricNames |->
        CASE k = "ProcessingErrors" -> 1
          [] k = "MessagesRead" -> 2
          [] k = "FilesActive" -> 1
          [] OTHER -> 0]}

MetricsInit ==
    /\ src \in {s \in Sources : s.isFile /\ ~s.truncated}
    /\ cfg = Config(TRUE, 5, FALSE, TRUE, {"ERROR"}, {"DEBUG"})
    /\ cursorNew = TRUE /\ cursor = 0
    /\ cursorAtStart = [new |-> cursorNew, offset |-> cursor]
    /\ pathKind \in {"missing", "regular", "pipe", "other"}
    /\ pathSize = 0
    /\ InitLocals
    /\ metrics \in MetricStarts
    /\ metricsAtStart = metrics
    /\ PipelineIdle
    /\ IdentifierIdle
    /\ peer = PeerIdle
    /\ SideIdle

MetricsSpec == MetricsInit /\ [][Next]_vars

\* ------------------------------------------------- two harvesters
\* The second harvester runs the same Run of the same input over its own
\* source: its state and its cursor entry are its own, the metrics are the
\* ones the first harvester counts in. Its open is taken to succeed.
PeerUnchanged ==
    UNCHANGED <<pc, src, cfg, storeVars, fileVars, truncated, reader,
                baseOffset, closerOnEOF, closerCfg, event, result, cancelled,
                streamCancel, closerVars, histVars, pipeVars, idVars,
                sideVars>>

\* Run up to the loop: initState on its cursor entry, open, the gauges and
\* counters.
PeerStart ==
    /\ peer.pc = "start"
    /\ LET off == initState(peer.cursorNew, peer.cursor, FALSE)
       IN  peer' = [peer EXCEPT !.pc = "loop", !.offset = off, !.start = off]
    /\ metrics' = EntryMetrics(metrics)
    /\ UNCHANGED sOffset
    /\ PeerUnchanged

PeerLoopCheck ==
    /\ peer.pc = "loop"
    /\ peer' = [peer EXCEPT !.pc = "next"]
    /\ UNCHANGED <<metrics, sOffset>>
    /\ PeerUnchanged

\* A Run that keeps the offset in a field of the input, which both
\* harvesters run on.
PeerAdvanceShared(msg) ==
    /\ sOffset' = AdvanceOffset(sOffset, msg)
    /\ peer' = [peer EXCEPT !.offset = sOffset',
                            !.consumed = @ + ConsumedBytes(msg),
                            !.reads = @ + 1,
                            !.pc = IF IsEmpty(msg) \/ isDroppedLine(cfg, msg.line)
                                   THEN "loop" ELSE "publish",
                            !.event = IF IsEmpty(msg) \/ isDroppedLine(cfg, msg.line)
                                      THEN @ ELSE PublishArgs(msg, sOffset')]

\* readFromSource advances s, its own copy of the state.
PeerAdvance(msg) ==
    /\ peer' = [peer EXCEPT !.offset = AdvanceOffset(@, msg),
                            !.consumed = @ + ConsumedBytes(msg),
                            !.reads = @ + 1,
                            !.pc = IF IsEmpty(msg) \/ isDroppedLine(cfg, msg.line)
                                   THEN "loop" ELSE "publish",
                            !.event = IF IsEmpty(msg) \/ isDroppedLine(cfg, msg.line)
                                      THEN @
                                      ELSE PublishArgs(msg, AdvanceOffset(peer.offset, msg))]
    /\ UNCHANGED sOffset

PeerNextMessage(msg) ==
    /\ peer.pc = "next"
    /\ peer.reads < MaxPeerReads
    /\ PeerAdvance(msg)
    /\ metrics' = IF IsEmpty(msg) \/ isDroppedLine(cfg, msg.line)
                  THEN ReadMetrics(metrics, msg)
                  ELSE Add(ReadMetrics(metrics, msg), "BytesProcessed", msg.Bytes)
    /\ PeerUnchanged

PeerNextError(e) ==
    /\ peer.pc = "next"
    /\ peer' = [peer EXCEPT !.pc = "done", !.result = "nil"]
    /\ metrics' = DeferredMetrics(ErrorMetrics(metrics, e))
    /\ UNCHANGED sOffset
    /\ PeerUnchanged

PeerPublish(ok) ==
    /\ peer.pc = "publish"
    /\ LET st == StoreAfterPublish(ok, [new |-> peer.cursorNew,
                                        offset |-> peer.cursor],
                                   peer.event.offset)
       IN  peer' = [peer EXCEPT
                      !.pubs = Append(@, [offset |-> peer.event.offset,
                                          consumed |-> peer.consumed,
                                          ok |-> ok]),
                      !.cursorNew = st.new,
                      !.cursor = st.offset,
                      !.event = NoEvent,
                      !.pc = IF ok THEN "loop" ELSE "done",
                      !.result = IF ok THEN @ ELSE "errPublish"]
    /\ metrics' = IF ok THEN Inc(metrics, "EventsProcessed")
                  ELSE DeferredMetrics(Inc(metrics, "ProcessingErrors"))
    /\ UNCHANGED sOffset
    /\ PeerUnchanged

\* Plain lines: none is cut, none matches a pattern.
PeerMessages == {m \in Messages : ~m.flagged /\ m.line = {}}

Peer ==
    \/ PeerStart
    \/ PeerLoopCheck
    \/ \E msg \in PeerMessages : PeerNextMessage(msg)
    \/ \E e \in NextErrors : PeerNextError(e)
    \/ \E ok \in BOOLEAN : PeerPublish(ok)

\* Both files hold plain lines.
PairNext ==
    \/ RunStart
    \/ Stat
    \/ ReadOpen
    \/ openFile
    \/ open
    \/ LoopCheck
    \/ \E msg \in PeerMessages : NextMessage(msg)
    \/ \E e \in NextErrors : NextError(e)
    \/ \E ok \in BOOLEAN : Publish(ok)
    \/ EnvCancel
    \/ CloseReader
    \/ Peer

\* Two harvesters of one input, started over two regular files with the
\* stored cursors one and twelve.
PairInit ==
    /\ src = [isFile |-> TRUE, truncated |-> FALSE, archived |-> FALSE]
    /\ cfg = Config(FALSE, 0, FALSE, FALSE, {}, {})
    /\ cursorNew = FALSE /\ cursor = 1
    /\ cursorAtStart = [new |-> cursorNew, offset |-> cursor]
    /\ pathKind = "regular" /\ pathSize = 1
    /\ InitRest
    /\ PipelineIdle
    /\ IdentifierIdle
    /\ peer = [PeerIdle EXCEPT !.pc = "start", !.cursorNew = FALSE,
                               !.cursor = 12]
    /\ SideIdle

PairSpec == PairInit /\ [][PairNext]_vars

\* ------------------------------------------------- sessions of one input
\* An open that writes the override into the input's own configuration.
OpenInPlace(archived) ==
    /\ Len(sessions) < MaxOpens
    /\ cfg' = [cfg EXCEPT !.onEOF = EffectiveOnEOF(archived, cfg.onEOF)]
    /\ sessions' = Append(sessions,
                          [archived |-> archived,
                           closerCfg |-> EffectiveCloser(archived, cfg')])
    /\ UNCHANGED <<runVars, src, pipeVars, idVars, peer, limits,
                   awsConfig, awsErr>>

\* open, for one more source of the input: closerCfg is computed from
\* inp.closerConfig and handed to newFileReader.
OpenSession(archived) ==
    /\ Len(sessions) < MaxOpens
    /\ sessions' = Append(sessions,
                          [archived |-> archived,
                           closerCfg |-> EffectiveCloser(archived, cfg)])
    /\ UNCHANGED <<runVars, src, cfg, pipeVars, idVars, peer, limits,
                   awsConfig, awsErr>>

SessionsNext == \E archived \in BOOLEAN : OpenSession(archived)

SessionsInit ==
    /\ src = [isFile |-> TRUE, truncated |-> FALSE, archived |-> FALSE]
    /\ cfg \in Configs
    /\ cursorNew = TRUE /\ cursor = 0
    /\ cursorAtStart = [new |-> cursorNew, offset |-> cursor]
    /\ pathKind = "regular" /\ pathSize = 0
    /\ InitRest
    /\ PipelineIdle
    /\ IdentifierIdle
    /\ peer = PeerIdle
    /\ SideIdle

SessionsSpec == SessionsInit /\ [][SessionsNext]_vars

\* ------------------------------------------------- limits of the pipeline
\* open: the limit of the EncodeReader and the limit of the LimitReader.
OpenLimits ==
    /\ limits = NoLimits
    /\ limits' = [MaxBytes |-> readerCfg.MaxBytes,
                  encReader |-> encReaderMaxBytes(readerCfg.MaxBytes),
                  limitReader |-> readerCfg.MaxBytes]
    /\ UNCHANGED <<runVars, src, cfg, pipeVars, idVars, peer, sessions,
                   awsConfig, awsErr>>

LimitsNext == OpenLimits

\* message_max_bytes is any positive value of the integer type.
LimitsInit ==
    /\ HarvesterIdle
    /\ readerCfg \in [MaxBytes : 1..MaxInt, LineTerminator : {1}]
    /\ record = NoRecord
    /\ stageAt = 0
    /\ IdentifierIdle
    /\ peer = PeerIdle
    /\ SideIdle

LimitsSpec == LimitsInit /\ [][LimitsNext]_vars

\* ------------------------------------------------ awscloudwatch: Validate
StartPositions == {beginning, end, lastSync, "latest", ""}

\* The configurations handed to Validate: each string field empty or not.
AwsConfigs ==
    [StartPosition : StartPositions, LogGroupARN : {"", "arn"},
     LogGroupName : {"", "name"}, LogGroupNamePrefix : {"", "prefix"},
     RegionName : {"", "region"}]

\* A Validate without the test that excludes name and prefix together.
ValidateAllowsBoth(c) ==
    IF c.StartPosition # beginning /\ c.StartPosition # end
       /\ c.StartPosition # lastSync
    THEN "errStartPosition"
    ELSE IF c.LogGroupARN = "" /\ c.LogGroupName = ""
            /\ c.LogGroupNamePrefix = ""
    THEN "errNoLogGroup"
    ELSE IF (c.LogGroupName # "" \/ c.LogGroupNamePrefix # "")
            /\ c.RegionName = ""
    THEN "errNoRegion"
    ELSE "nil"

\* config.Validate: the first test that fails gives the error.
Validate(c) ==
    IF c.StartPosition # beginning /\ c.StartPosition # end
       /\ c.StartPosition # lastSync
    THEN "errStartPosition"
    ELSE IF c.LogGroupARN = "" /\ c.LogGroupName = ""
            /\ c.LogGroupNamePrefix = ""
    THEN "errNoLogGroup"
    ELSE IF c.LogGroupName # "" /\ c.LogGroupNamePrefix # ""
    THEN "errBothNames"
    ELSE IF (c.LogGroupName # "" \/ c.LogGroupNamePrefix # "")
            /\ c.RegionName = ""
    THEN "errNoRegion"
    ELSE "nil"

\* Validate is called on the configuration.
ValidateStep ==
    /\ awsErr = "unset"
    /\ awsErr' = Validate(awsConfig)
    /\ UNCHANGED <<runVars, src, cfg, pipeVars, idVars, peer, sessions,
                   limits, awsConfig>>

ValidateNext == ValidateStep

ValidateInit ==
    /\ HarvesterIdle
    /\ PipelineIdle
    /\ IdentifierIdle
    /\ peer = PeerIdle
    /\ sessions = <<>>
    /\ limits = NoLimits
    /\ awsConfig \in AwsConfigs
    /\ awsErr = "unset"

ValidateSpec == ValidateInit /\ [][ValidateNext]_vars

\* =============================================================== claims
Accepted == SelectSeq(pubCalls, LAMBDA c : c.ok)
LastCall == pubCalls[Len(pubCalls)]
PublishFailed == pubCalls # <<>> /\ ~LastCall.ok

\* The offset Run resumes from: initState on the cursor the run began with.
ResumeOffset ==
    initState(cursorAtStart.new, cursorAtStart.offset, src.truncated)

\* C1: in every state of a run the cursor store holds the offset handed over
\* with the last accepted Publish, or the entry the run began with when no
\* Publish was accepted yet; a rejected Publish leaves it where it was.
C1_CursorIsLastAccepted ==
    IF Accepted = <<>>
    THEN cursorNew = cursorAtStart.new /\ cursor = cursorAtStart.offset
    ELSE ~cursorNew /\ cursor = Accepted[Len(Accepted)].offset

\* A Publish was rejected after an accepted one, with a larger offset.
C1_Witness ==
    /\ Len(pubCalls) = 2
    /\ pubCalls[1].ok /\ ~pubCalls[2].ok
    /\ pubCalls[2].offset > pubCalls[1].offset
    /\ cursor = pubCalls[1].offset

\* C2: the offsets of the successive Publish calls of a run never decrease,
\* whatever messages r.Next returned and whichever of them were dropped.
C2_PublishOffsetsMonotone ==
    \A i, j \in 1..Len(pubCalls) :
        i < j => pubCalls[i].offset <= pubCalls[j].offset

\* Two Publish calls with a dropped message read in between, which moved
\* the offset.
C2_Witness ==
    /\ Len(pubCalls) = 2
    /\ pubCalls[1].read = 1 /\ pubCalls[2].read = 3
    /\ pubCalls[2].offset > pubCalls[1].offset + 6
    /\ ~truncated

\* C3: the offset is the start offset plus the bytes the stream advanced
\* over all messages read so far, dropped ones included, and so is the offset
\* of every Publish call at the time of the call.
C3_OffsetIsStartPlusConsumed ==
    /\ startOffset >= 0 => sOffset = startOffset + consumed
    /\ \A i \in 1..Len(pubCalls) :
          pubCalls[i].offset = startOffset + pubCalls[i].consumed

\* A fresh harvester over "line1\nline2\n" published offsets 6 and 12.
C3_Witness ==
    /\ cursorAtStart.new
    /\ reads = 2
    /\ Len(pubCalls) = 2
    /\ pubCalls[1].offset = 6 /\ pubCalls[1].ok
    /\ pubCalls[2].offset = 12 /\ pubCalls[2].ok
    /\ cursor = 12

\* C4: when the opened file is smaller than the resumed offset, open reports
\* truncation, initFileOffset leaves the descriptor at byte 0, the stamped
\* base offset and the state are 0, every published offset counts from 0,
\* and Run does not fail with the open error.
C4_TruncationRestartsAtZero ==
    (reader # "none" /\ fdSize < ResumeOffset) =>
        /\ truncated
        /\ seekPos = 0
        /\ baseOffset = 0
        /\ startOffset = 0
        /\ sOffset = consumed
        /\ \A i \in 1..Len(pubCalls) : pubCalls[i].offset = pubCalls[i].consumed
        /\ result # "errOpen"

\* Resumed at 12 over an emptied file: the first record is published at 6.
C4_Witness ==
    /\ ~cursorAtStart.new /\ cursorAtStart.offset = 12
    /\ fdSize = 0
    /\ truncated
    /\ pubCalls # <<>>
    /\ pubCalls[1].offset = 6 /\ pubCalls[1].ok
    /\ result = "nil"

\* C5: once r.Next returned ErrFileTruncate, ErrClosed or io.EOF, Run has
\* returned nil, and no r.Next and no Publish is called any more.
C5_TerminalEndsLoop ==
    /\ [](lastErr \in TerminalErrors => pc = "done" /\ result = "nil")
    /\ [][(lastErr \in TerminalErrors) =>
            (nextCalls' = nextCalls /\ pubCalls' = pubCalls)]_vars

\* The loop ended on io.EOF after a record was published.
C5_Witness ==
    /\ lastErr = "EOF"
    /\ pubCalls # <<>>
    /\ pc = "done"
    /\ closer = "done"

\* C6: once a Publish failed, Run has returned the publish error, no r.Next
\* and no Publish is called any more, and the events-processed counter
\* counts the accepted Publish calls only.
C6_PublishErrorAborts ==
    /\ [](PublishFailed => pc = "done" /\ result = "errPublish")
    /\ [](metrics["EventsProcessed"] = Len(Accepted))
    /\ [][PublishFailed =>
            (nextCalls' = nextCalls /\ pubCalls' = pubCalls)]_vars

\* The second Publish failed.
C6_Witness ==
    /\ Len(pubCalls) = 2
    /\ pubCalls[1].ok /\ ~pubCalls[2].ok
    /\ result = "errPublish"
    /\ metrics["EventsProcessed"] = 1
    /\ closer = "done"

\* C7 as stated: Run returns an error only when opening the source failed or
\* a Publish failed.
C7_ErrorOnlyFromOpenOrPublish ==
    pc = "done" =>
        \/ result = "nil"
        \/ result = "errOpen" /\ reader = "none"
        \/ result = "errPublish" /\ PublishFailed

\* C7 amended: Run returns an error only when the source is no file source,
\* when opening it failed or when a Publish failed; every other end of the
\* run (a terminal condition or a read failure of r.Next, the cancellation
\* seen by the loop) returns nil.
C7_ErrorOnlyFromSourceOpenOrPublish ==
    pc = "done" =>
        /\ result \in {"nil", "errNotFile", "errOpen", "errPublish"}
        /\ result = "errNotFile" <=> ~src.isFile
        /\ result = "errOpen" <=> (src.isFile /\ reader = "none")
        /\ result = "errPublish" <=> PublishFailed

\* The run ended on an unexpected read failure and returned nil.
C7_Witness ==
    /\ pc = "done"
    /\ lastErr = "ErrIO"
    /\ metrics["ProcessingErrors"] = 1
    /\ result = "nil"

Running == {"loop", "next", "publish"}

\* C8: a failed open leaves no file open when Run returns the error, and
\* after a successful open the reader and its file are closed once Run has
\* returned, however the loop ended.
C8_DescriptorReleased ==
    /\ [](result = "errOpen" => ~fdOpen)
    /\ [](pc # "done" \/ reader = "none" \/ streamCancel)
    /\ (pc = "done" /\ reader # "none") ~> (reader = "closed" /\ ~fdOpen)

\* The run ended on a publish failure without any cancellation, and the
\* reader was closed.
C8_Witness ==
    /\ result = "errPublish"
    /\ ~cancelled
    /\ reader = "closed"
    /\ ~fdOpen
    /\ closeCalls = 1

\* C9 as stated: a run during which the cancellation signal fired returns
\* success.
C9_CancelledRunSucceeds ==
    (pc = "done" /\ cancelAt \in Running) => result = "nil"

\* C9 amended: after the cancellation signal fired during the loop, r.Close
\* is called by the registered function, an r.Next in flight returns
\* ErrClosed, the loop calls r.Next no more once it is back at its condition,
\* and Run returns: nil, unless a Publish failed, whose error it returns.
C9_CancelTerminates ==
    /\ (cancelAt \in Running) ~> (pc = "done" /\ reader = "closed" /\ closeCalls = 1)
    /\ (pc = "next" /\ reader = "closed") ~> (pc = "done" /\ lastErr = "ErrClosed")
    /\ [][(cancelled /\ pc = "loop") => nextCalls' = nextCalls]_vars
    /\ [](pc = "done" /\ cancelAt \in Running =>
             result = (IF PublishFailed THEN "errPublish" ELSE "nil"))

\* The signal fired while r.Next was in flight, and the reader was closed
\* under it.
C9_Witness ==
    /\ cancelAt = "next"
    /\ pc = "next"
    /\ reader = "closed"
    /\ closeCalls = 1

\* C10: the reader is closed at most once and without a close error, also
\* when both the cancellation signal and streamCancel() ask for it; once it
\* is closed it stays closed, what Run returned is never changed, and when
\* both have asked the reader ends up closed.
C10_CloseIdempotent ==
    /\ [](closeCalls <= 1 /\ closeErrs = 0)
    /\ [](closer = "done" => reader = "closed" /\ ~fdOpen)
    /\ [][closer = "done" =>
            (reader' = reader /\ fdOpen' = fdOpen /\ closeCalls' = closeCalls)]_vars
    /\ [][result # "none" => result' = result]_vars
    /\ (cancelled /\ streamCancel) ~> (reader = "closed" /\ ~fdOpen)

\* The signal fired after Run had returned nil and before the registered
\* function ran: both ask for the close, and it ran once.
C10_Witness ==
    /\ cancelAt = "done"
    /\ streamCancel
    /\ result = "nil"
    /\ closer = "done"
    /\ closeCalls = 1

\* The rule of the include and exclude patterns, on a line given by the
\* patterns it contains.
FilterDrops(include, exclude, line) ==
    \/ include # {} /\ include \cap line = {}
    \/ exclude \cap line # {}

\* C11: a non-empty message that r.Next returned goes back to the loop
\* without a Publish exactly when include patterns are configured and none
\* matches its line, or an exclude pattern matches it (also when an include
\* pattern matched); otherwise it is handed to Publish, as is every
\* non-empty message when neither list is configured.
C11_FilterDropsExactly ==
    [][\A msg \in Messages :
          (NextMessage(msg) /\ ~IsEmpty(msg)) =>
              /\ pc' = (IF FilterDrops(cfg.include, cfg.exclude, msg.line)
                        THEN "loop" ELSE "publish")
              /\ (cfg.include = {} /\ cfg.exclude = {}) => pc' = "publish"]_vars

\* With include {ERROR} and exclude {DEBUG} the first message, of six bytes,
\* was dropped by the filter and the second was published.
C11_Witness ==
    /\ cfg.include = {"ERROR"} /\ cfg.exclude = {"DEBUG"}
    /\ Len(pubCalls) = 1
    /\ pubCalls[1].read = 2
    /\ pubCalls[1].consumed = 12
    /\ metrics["MessagesRead"] = 2
    /\ metrics["BytesProcessed"] = 6

\* C12: the closer configuration of a session has OnEOF set exactly when the
\* input's configuration has it or the source is archived, and its
\* AfterInterval and OnStateChange are those of the input's configuration;
\* io.EOF ends a session only when that OnEOF is set.
C12_EffectiveCloserPolicy ==
    /\ reader # "none" =>
          /\ closerCfg.OnEOF = (cfg.onEOF \/ src.archived)
          /\ closerCfg.AfterInterval = cfg.afterInterval
          /\ closerCfg.OnStateChange = cfg.onStateChange
          /\ closerOnEOF = closerCfg.OnEOF
    /\ lastErr = "EOF" => (cfg.onEOF \/ src.archived)

\* An archived source under an input without OnEOF, with an interval and
\* OnStateChange configured: the session ended on io.EOF.
C12_Witness ==
    /\ src.archived /\ ~cfg.onEOF
    /\ cfg.afterInterval = 5 /\ cfg.onStateChange
    /\ closerCfg.OnEOF
    /\ lastErr = "EOF"
    /\ result = "nil"

\* The message left the outermost reader: it is what r.Next returns and,
\* unless dropped, what Publish is handed.
PipelineDone == stageAt > Len(StageOrder)

\* C13: the content of a message that left the pipeline is never longer
\* than MaxBytes, whatever its length after decoding and whatever the
\* parsers added: LimitReader is the last stage, and it cuts to MaxBytes
\* exactly and leaves shorter content as it is.
C13_PublishedSizeBounded ==
    /\ [](PipelineDone => record.len <= readerCfg.MaxBytes)
    /\ [](PipelineDone => StageOrder[stageAt - 1] = "LimitReader")
    /\ [][stageAt = Len(StageOrder) =>
            /\ record'.len = Min(record.len, readerCfg.MaxBytes)
            /\ record'.flagged = (record.len > readerCfg.MaxBytes)]_vars

\* A message that reached LimitReader longer than MaxBytes left the pipeline
\* stamped, cut to MaxBytes and flagged.
C13_Witness ==
    /\ PipelineDone
    /\ readerCfg.MaxBytes = 2
    /\ record.len = 2
    /\ record.flagged
    /\ record.stamped

\* C14: under the path identifier the name of every event is "path::" and
\* its new path, and "path::" and its old path for a Delete, as in the cases
\* of the test; so a Rename gives a name other than the one before it, and a
\* Delete the name the file had last.
C14_PathNameFollowsPath ==
    /\ \A c \in PathTestCases : PathName(c.event) = c.expectedSrc
    /\ identifier.strategy = "path" =>
          \A i \in 1..Len(sources) :
             LET e == sources[i].event
             IN  /\ e.Op # "Delete" => sources[i].name = <<"path", "::", e.NewPath>>
                 /\ e.Op = "Delete" => sources[i].name = <<"path", "::", e.OldPath>>
                 /\ (i > 1 /\ e.Op = "Rename") =>
                        sources[i].name # sources[i - 1].name
                 /\ (i > 1 /\ e.Op = "Delete") =>
                        sources[i].name = sources[i - 1].name

\* The file was created as /a/app.log, renamed to /b/app.log and deleted.
C14_Witness ==
    /\ identifier.strategy = "path"
    /\ Len(sources) = 3
    /\ sources[1].name = <<"path", "::", "/a/app.log">>
    /\ sources[2].event.Op = "Rename"
    /\ sources[2].name = <<"path", "::", "/b/app.log">>
    /\ sources[3].event.Op = "Delete"
    /\ sources[3].name = <<"path", "::", "/b/app.log">>

\* C15: under the fingerprint identifier the name of every event is
\* "fingerprint::" and the fingerprint of its descriptor, as in the cases of
\* the test; two events with the same fingerprint have the same name,
\* whatever their operations and paths.
C15_FingerprintNameStable ==
    /\ \A c \in FingerprintTestCases : FingerprintName(c.event) = c.expectedSrc
    /\ identifier.strategy = "fingerprint" =>
          /\ \A i \in 1..Len(sources) :
                sources[i].name =
                    <<"fingerprint", "::", sources[i].event.Descriptor.Fingerprint>>
          /\ \A i, j \in 1..Len(sources) :
                sources[i].event.Descriptor.Fingerprint =
                    sources[j].event.Descriptor.Fingerprint
                        => sources[i].name = sources[j].name

\* Create, Rename and Delete of one file gave one name.
C15_Witness ==
    /\ identifier.strategy = "fingerprint"
    /\ Len(sources) = 3
    /\ sources[1].event.Op = "Create"
    /\ sources[2].event.Op = "Rename"
    /\ sources[3].event.Op = "Delete"
    /\ sources[1].name = sources[3].name
    /\ sources[2].name = <<"fingerprint", "::", "fingerprintvalue">>

\* C16: under the native identifier the name of every event is "native::"
\* and the OS state of its descriptor, followed by "-" and the suffix exactly
\* when a suffix is configured, as in the cases of the test; two events have
\* the same name exactly when their OS states are the same, whatever their
\* paths and sizes.
C16_NativeNameFollowsInode ==
    /\ \A c \in NativeTestCases :
          NativeName([strategy |-> "native", suffix |-> c.suffix], c.event)
              = c.expectedSrc
    /\ identifier.strategy = "native" =>
          /\ \A i \in 1..Len(sources) :
                LET n == sources[i].name
                    head == <<"native", "::", sources[i].event.Descriptor.OSState>>
                IN  IF identifier.suffix = ""
                    THEN n = head
                    ELSE n = head \o <<"-", identifier.suffix>>
          /\ \A i, j \in 1..Len(sources) :
                (sources[i].event.Descriptor.OSState =
                    sources[j].event.Descriptor.OSState)
                        <=> (sources[i].name = sources[j].name)

\* With a suffix configured: the file grew and was renamed under one name,
\* and another inode at the path got another name.
C16_Witness ==
    /\ identifier = [strategy |-> "native", suffix |-> "my-suffix"]
    /\ Len(sources) = 3
    /\ sources[2].event.Op = "Rename"
    /\ sources[2].name = sources[1].name
    /\ sources[3].event.Descriptor.OSState # sources[1].event.Descriptor.OSState
    /\ sources[3].name # sources[1].name
    /\ Len(sources[1].name) > Len(<<"native", "::", "100-1">>)

\* What a harvester's run owns: everything but the metrics and the peer.
OwnVars ==
    <<pc, src, cfg, storeVars, fileVars, truncated, reader, baseOffset,
      closerOnEOF, closerCfg, sOffset, event, result, cancelled, streamCancel,
      closerVars, histVars>>

PeerAccepted == SelectSeq(peer.pubs, LAMBDA c : c.ok)

\* C17: with two harvesters of one input interleaved over sources of two
\* names, the offsets of each are its own start offset plus the bytes of its
\* own messages, at every Publish and in between, and its cursor entry is
\* its own last accepted offset: what it publishes is what it publishes
\* alone. No step of one changes anything of the other but the metrics.
C17_HarvestersIndependent ==
    /\ [](startOffset >= 0 =>
             /\ sOffset = startOffset + consumed
             /\ \A i \in 1..Len(pubCalls) :
                   pubCalls[i].offset = startOffset + pubCalls[i].consumed)
    /\ [](peer.start >= 0 =>
             /\ peer.offset = peer.start + peer.consumed
             /\ \A i \in 1..Len(peer.pubs) :
                   peer.pubs[i].offset = peer.start + peer.pubs[i].consumed)
    /\ [](Accepted # <<>> => cursor = Accepted[Len(Accepted)].offset)
    /\ [](PeerAccepted # <<>> =>
             peer.cursor = PeerAccepted[Len(PeerAccepted)].offset)
    /\ [][peer' # peer => UNCHANGED OwnVars]_vars
    /\ [][OwnVars' # OwnVars => peer' = peer]_vars

\* Both harvesters have published once and are in their second Publish at
\* the same time, each at its own offset.
C17_Witness ==
    /\ pc = "publish" /\ peer.pc = "publish"
    /\ Len(pubCalls) = 1 /\ Len(peer.pubs) = 1
    /\ pubCalls[1].ok /\ peer.pubs[1].ok
    /\ cursor = 7 /\ peer.cursor = 18
    /\ event.offset = 13 /\ peer.event.offset = 24

\* What the run added to a counter or gauge since it began.
Counted(k) == metrics[k] - metricsAtStart[k]

Started == IF startOffset >= 0 THEN 1 ELSE 0
Ended == IF startOffset >= 0 /\ pc = "done" THEN 1 ELSE 0

\* C18: whatever the metrics were when Run began, every decision of the
\* loop follows from the cancellation signal, the answer of r.Next and the
\* answer of Publish alone, every step is possible whatever the counters
\* hold, and what the run adds to each counter follows from the calls it
\* made: two runs that differ in the metrics at start only make the same
\* calls, publish the same and return the same.
C18_MetricsAreSideEffects ==
    /\ [][(pc = "loop" /\ pc' # pc) =>
            IF cancelled THEN pc' = "done" /\ result' = "nil"
            ELSE pc' = "next" /\ nextCalls' = nextCalls + 1]_vars
    /\ [][(pc = "next" /\ pc' # pc) =>
            IF lastErr' # "" THEN pc' = "done" /\ result' = "nil"
            ELSE /\ reads' = reads + 1
                 /\ pc' = (IF event' # NoEvent THEN "publish" ELSE "loop")]_vars
    /\ [][(pc = "publish" /\ pc' # pc) =>
            IF LastCall'.ok THEN pc' = "loop" /\ result' = "none"
            ELSE pc' = "done" /\ result' = "errPublish"]_vars
    /\ [](pc = "loop" => ENABLED LoopCheck)
    /\ [](pc = "next" => ENABLED NextError("ErrClosed"))
    /\ [](pc = "next" /\ reader = "open" => ENABLED NextError("ErrIO"))
    /\ [](pc = "publish" => ENABLED Publish(TRUE) /\ ENABLED Publish(FALSE))
    /\ [](/\ Counted("MessagesRead") = reads
          /\ Counted("EventsProcessed") = Len(Accepted)
          /\ Counted("BytesProcessed") = 6 * Len(pubCalls) + (IF pc = "publish" THEN 6 ELSE 0)
          /\ Counted("ProcessingErrors") =
                (IF lastErr = "ErrIO" THEN 1 ELSE 0) + (IF PublishFailed THEN 1 ELSE 0)
          /\ Counted("FilesOpened") = Started
          /\ Counted("HarvesterStarted") = Started
          /\ Counted("FilesClosed") = Ended
          /\ Counted("HarvesterClosed") = Ended
          /\ Counted("FilesActive") = Started - Ended
          /\ Counted("HarvesterRunning") = Started - Ended
          /\ Counted("HarvesterOpenFiles") = Started - Ended)

\* A run that began with the processing-errors counter at one published
\* two records and returned nil, with the counter where it was.
C18_Witness ==
    /\ metricsAtStart["ProcessingErrors"] = 1
    /\ Len(pubCalls) = 2
    /\ pc = "done"
    /\ result = "nil"
    /\ Counted("EventsProcessed") = 2
    /\ Counted("ProcessingErrors") = 0

\* C19 as stated: when r.Next returns an error that is none of
\* ErrFileTruncate, ErrClosed and io.EOF, the error is counted and the
\* harvester is back at the loop condition to read the following records.
C19_ReadErrorSkipsRecord ==
    [][(lastErr' = "ErrIO" /\ nextCalls' = nextCalls /\ pc = "next") =>
          /\ metrics'["ProcessingErrors"] = metrics["ProcessingErrors"] + 1
          /\ pc' = "loop"]_vars

\* C19 amended: when r.Next returns an error that is none of
\* ErrFileTruncate, ErrClosed and io.EOF, the error is counted once in the
\* processing-errors counter and the loop ends: Run returns nil, calls r.Next
\* and Publish no more, and the cursor stays at the last accepted Publish.
C19_ReadErrorEndsLoop ==
    /\ [](lastErr = "ErrIO" =>
             /\ pc = "done" /\ result = "nil"
             /\ metrics["ProcessingErrors"] = 1
             /\ metrics["MessagesRead"] = reads
             /\ C1_CursorIsLastAccepted)
    /\ [][lastErr = "ErrIO" =>
            (nextCalls' = nextCalls /\ pubCalls' = pubCalls /\ cursor' = cursor)]_vars

\* After one record was published at offset 6, r.Next failed: the run is
\* over with the cursor at 6.
C19_Witness ==
    /\ lastErr = "ErrIO"
    /\ nextCalls = 2
    /\ Len(pubCalls) = 1 /\ pubCalls[1].ok
    /\ cursor = 6
    /\ pc = "done"
    /\ closer = "done"

\* C20: whatever is put at the path between os.Stat and the open, a pipeline
\* exists only over a descriptor whose own metadata say regular file, and
\* truncation is decided on that descriptor's size; a descriptor of anything
\* else is never seeked or read, and once openFile has looked at it Run has
\* returned the open error and the descriptor is closed.
C20_OnlyRegularFilesAreRead ==
    /\ reader # "none" =>
          /\ fdKind = "regular"
          /\ truncated <=> fdSize < ResumeOffset
    /\ fdKind \notin {"none", "regular"} =>
          /\ fdPos = 0 /\ seekPos = -1
          /\ reader = "none" /\ nextCalls = 0
          /\ pc \in {"openfile", "done"}
          /\ pc = "done" => (result = "errOpen" /\ ~fdOpen)

\* The path held something else than a pipe at os.Stat and a named pipe at
\* the open: Run returned the open error.
C20_Witness ==
    /\ fdKind = "pipe"
    /\ pathKind = "pipe"
    /\ pc = "done"
    /\ result = "errOpen"
    /\ ~fdOpen

\* C21: a message passes the readers in the order EncodeReader,
\* StripNewline, Filemeta, the parsers, LimitReader: the decoder's ceiling
\* applies first, the terminator is gone and the metadata stamped before the
\* parsers add anything, after the parsers only LimitReader is left, and the
\* cut of LimitReader is the last step.
C21_StagesInFixedOrder ==
    /\ [][stageAt = 1 =>
            record'.len = Min(record.len, EncodeFactor * readerCfg.MaxBytes)]_vars
    /\ [][record'.term # record.term => ~record.stamped]_vars
    /\ [][record'.stamped # record.stamped => record.term = 0]_vars
    /\ [][record'.len > record.len =>
            /\ record.stamped /\ record.term = 0
            /\ stageAt' = Len(StageOrder)]_vars
    /\ [][record'.flagged # record.flagged => stageAt' > Len(StageOrder)]_vars
    /\ [](PipelineDone => record.stamped /\ record.term = 0)

\* The parsers are handed a stamped message without terminator that is
\* longer than MaxBytes.
C21_Witness ==
    /\ stageAt \in 1..Len(StageOrder)
    /\ StageOrder[stageAt] = "Parsers"
    /\ record.stamped
    /\ record.term = 0
    /\ record.len > readerCfg.MaxBytes

\* C22: the offset a run seeks to, stamps and starts counting from is 0 when
\* the cursor is new, when the source is flagged truncated or when the opened
\* file is smaller than the stored offset, and the stored offset in every
\* other case, a file of exactly that size included; truncation is reported
\* for the smaller file only.
C22_StartOffset ==
    reader # "none" =>
        LET zero == \/ cursorAtStart.new
                    \/ src.truncated
                    \/ fdSize < cursorAtStart.offset
            start == IF zero THEN 0 ELSE cursorAtStart.offset
        IN  /\ startOffset = start
            /\ seekPos = start
            /\ baseOffset = start
            /\ truncated =>
                  (fdSize < cursorAtStart.offset /\ ~cursorAtStart.new)
            /\ ~zero => ~truncated

\* A file of one byte resumed at the stored offset one: no truncation, and
\* the first record is published at seven.
C22_Witness ==
    /\ ~cursorAtStart.new /\ cursorAtStart.offset = 1
    /\ ~src.truncated
    /\ fdSize = 1
    /\ ~truncated
    /\ startOffset = 1
    /\ pubCalls # <<>>
    /\ pubCalls[1].offset = 7

\* C23: the offset the harvester starts counting from and the base offset
\* stamped on the records are the position of the descriptor after the
\* encoding factory has read from it.
C23_EffectiveOffsetIsStreamPosition ==
    reader # "none" =>
        /\ startOffset = fdPos
        /\ baseOffset = fdPos

\* The harvesters that have opened their file and have not returned.
ActiveHarvesters ==
    (IF startOffset >= 0 /\ pc # "done" THEN 1 ELSE 0)
        + (IF peer.pc \in Running THEN 1 ELSE 0)

DropStep == pc = "next" /\ pc' = "loop"

\* The messages of the run that were dropped.
Dropped == reads - Len(pubCalls) - (IF pc = "publish" THEN 1 ELSE 0)

\* C25 as stated: a dropped message increments a metric of its own, one
\* that is neither the messages-read nor the messages-truncated counter.
C25_DropIncrementsDroppedMetric ==
    [][DropStep =>
          \E k \in MetricNames \ {"MessagesRead", "MessagesTruncated"} :
              metrics'[k] = metrics[k] + 1]_vars

\* C25 amended: a dropped message is counted as read (and as truncated when
\* it is flagged) and changes no other metric; messages-read counts every
\* message r.Next returned and events-processed the accepted Publish calls,
\* so at the end of a run without publish failure the dropped messages are
\* messages-read minus events-processed.
C25_DropsCountedAsReadOnly ==
    /\ [][DropStep =>
            /\ metrics'["MessagesRead"] = metrics["MessagesRead"] + 1
            /\ \A k \in MetricNames \ {"MessagesRead", "MessagesTruncated"} :
                  metrics'[k] = metrics[k]]_vars
    /\ [](metrics["MessagesRead"] = reads)
    /\ []((pc = "done" /\ ~PublishFailed) =>
             metrics["MessagesRead"] - metrics["EventsProcessed"] = Dropped)

\* A run of three messages ended without publish failure: one was
\* published, two were dropped.
C25_Witness ==
    /\ pc = "done"
    /\ result = "nil"
    /\ reads = 3
    /\ Len(pubCalls) = 1
    /\ metrics["MessagesRead"] = 3
    /\ metrics["EventsProcessed"] = 1
    /\ metrics["BytesProcessed"] = 6

\* The offset the store holds: a new entry stands for offset 0.
StoredOffset == IF cursorNew THEN 0 ELSE cursor

\* The last accepted Publish of the run, or the start of the run.
LastAccepted ==
    IF Accepted = <<>>
    THEN [consumed |-> 0, read |-> 0]
    ELSE [consumed |-> Accepted[Len(Accepted)].consumed,
          read |-> Accepted[Len(Accepted)].read]

\* The run reads on from the stored offset (no restart at 0 over a truncated
\* file) or has stored an offset of its own.
ReadsOnFromStore ==
    \/ Accepted # <<>>
    \/ startOffset = (IF cursorAtStart.new THEN 0 ELSE cursorAtStart.offset)

\* C26 as stated: in a run that opened its file the stored cursor never
\* exceeds the offset the harvester has consumed up to.
C26_CursorNeverExceedsConsumed ==
    startOffset >= 0 => StoredOffset <= sOffset

\* C26 amended: a dropped message advances the offset by the bytes consumed
\* and causes no Publish and no cursor write; in a run that reads on from the
\* stored offset, or once a Publish was accepted, the stored cursor never
\* exceeds the offset; only the last Publish of a run can fail, and when the
\* run has ended the offset is ahead of the cursor by exactly the bytes of
\* the messages read after the last accepted Publish, each of them dropped
\* or the one whose Publish failed.
C26_DroppedAdvanceOffsetOnly ==
    /\ [][DropStep =>
            /\ sOffset' = sOffset + (consumed' - consumed)
            /\ pubCalls' = pubCalls
            /\ cursor' = cursor /\ cursorNew' = cursorNew]_vars
    /\ []((startOffset >= 0 /\ ReadsOnFromStore) => StoredOffset <= sOffset)
    /\ [](\A i \in 1..Len(pubCalls) : ~pubCalls[i].ok => i = Len(pubCalls))
    /\ []((pc = "done" /\ startOffset >= 0 /\ ReadsOnFromStore) =>
             /\ sOffset - StoredOffset = consumed - LastAccepted.consumed
             /\ Dropped + (IF PublishFailed THEN 1 ELSE 0) + Len(Accepted)
                  = reads
             /\ \A i \in 1..Len(pubCalls) :
                   pubCalls[i].read > LastAccepted.read =>
                       i = Len(pubCalls) /\ ~pubCalls[i].ok)

\* A run ended on a failed Publish after an accepted one and a dropped
\* message: the cursor is behind the offset by the two messages.
C26_Witness ==
    /\ pc = "done"
    /\ Len(pubCalls) = 2
    /\ pubCalls[1].ok /\ pubCalls[1].read = 1
    /\ ~pubCalls[2].ok /\ pubCalls[2].read = 3
    /\ ~truncated
    /\ cursor = pubCalls[1].offset
    /\ sOffset = cursor + 12

\* The closer configuration of the input as it was constructed.
StaticCloser(c) ==
    [OnEOF |-> c.onEOF, AfterInterval |-> c.afterInterval,
     OnStateChange |-> c.onStateChange]

\* C27: whatever sources an input opens one after the other, archived or
\* not, no open changes the input's closer configuration, and every
\* non-archived source gets exactly that configuration, also after an
\* archived one was given the override.
C27_OverrideIsLocalToSession ==
    /\ [][cfg' = cfg]_vars
    /\ [](\A i \in 1..Len(sessions) :
             ~sessions[i].archived =>
                 sessions[i].closerCfg = StaticCloser(cfg))

\* On an input without close-on-EOF an archived source was opened with the
\* override, and a non-archived source opened after it closes on EOF no more
\* than the input says.
C27_Witness ==
    /\ ~cfg.onEOF
    /\ \E i, j \in 1..Len(sessions) :
          /\ i < j
          /\ sessions[i].archived /\ sessions[i].closerCfg.OnEOF
          /\ ~sessions[j].archived /\ ~sessions[j].closerCfg.OnEOF
          /\ sessions[j].closerCfg = StaticCloser(cfg)

\* C28 as stated: the limit of the decode stage is four times the
\* configured maximum and not below the limit of the final stage, for
\* every positive maximum the integer type holds.
C28_DecodeCeilingCoversLimit ==
    limits # NoLimits =>
        /\ limits.encReader = EncodeFactor * limits.MaxBytes
        /\ limits.encReader >= limits.limitReader

\* C29: when the open fails, Run has returned the error without a call of
\* r.Next or p.Publish, no reader exists, and every metric and the cursor
\* entry are what they were when Run began.
C29_OpenFailureLeavesNoTrace ==
    result = "errOpen" =>
        /\ pc = "done"
        /\ nextCalls = 0 /\ reads = 0
        /\ pubCalls = <<>>
        /\ reader = "none"
        /\ metrics = metricsAtStart
        /\ cursorNew = cursorAtStart.new
        /\ cursor = cursorAtStart.offset

\* A resumed run opened a regular file and failed after the open (f.Stat,
\* the seek, the encoding or the reader): the descriptor is closed again.
C29_Witness ==
    /\ result = "errOpen"
    /\ fdKind = "regular"
    /\ ~fdOpen
    /\ ~cursorNew /\ cursor = 12

\* The conditions under which a configuration is valid.
ValidConfig(c) ==
    /\ c.StartPosition \in {beginning, end, lastSync}
    /\ c.LogGroupARN # "" \/ c.LogGroupName # "" \/ c.LogGroupNamePrefix # ""
    /\ ~(c.LogGroupName # "" /\ c.LogGroupNamePrefix # "")
    /\ (c.LogGroupName # "" \/ c.LogGroupNamePrefix # "") => c.RegionName # ""

\* C30: Validate returns nil exactly for a configuration whose
\* start_position is beginning, end or lastSync, that names a log group by
\* ARN, name or prefix, not by name and prefix together, and that has a
\* region when it has a name or a prefix; the default configuration is
\* rejected.
C30_ValidateAcceptsExactlyValid ==
    awsErr # "unset" =>
        /\ awsErr = "nil" <=> ValidConfig(awsConfig)
        /\ awsConfig = defaultConfig => awsErr = "errNoLogGroup"

\* Validate accepted a configuration with a prefix and a region and no ARN.
C30_Witness ==
    /\ awsErr = "nil"
    /\ awsConfig.LogGroupARN = ""
    /\ awsConfig.LogGroupNamePrefix # ""
    /\ awsConfig.RegionName # ""
    /\ awsConfig.StartPosition = lastSync

====
